---- MODULE Spec2Model ----
(***************************************************************************)
(* Model of src/arduino/monitoramento.ino: the INA226 continuous monitor.  *)
(*                                                                         *)
(* setup() prints the preamble, probes the sensor, configures it, runs the *)
(* blocking baseline calibration and opens the data phase; loop() is the   *)
(* rate-limited sampling tick with the incremental energy integration.     *)
(*                                                                         *)
(* Numbers.  Times are milliseconds of the unsigned millis() counter and   *)
(* wrap at MillisModulus.  The float quantities are kept exact as scaled   *)
(* integers:                                                               *)
(*   current, power   in thousandths (0.968 is 968 / 1000),                *)
(*   totalEnergy      in thousandths of mW * ms, i.e. the code's mWh value *)
(*                    times 1000 * 3600000 (the code divides the ms delta  *)
(*                    by 1000.0 and by 3600.0),                            *)
(*   baselineCurrent, netCurrent  as fractions [num, den] of thousandths.  *)
(* A data line of the serial stream is modelled by the six values handed   *)
(* to Serial.printf, before their decimal formatting.                      *)
(***************************************************************************)
EXTENDS Integers, Sequences, FiniteSets, TLC

\* ------------------------------------------------------------- bounds
\* Width in bits of the millis() counter of the model (32 on the device).
WordBits == 13
\* loop() invocations explored after setup().
MaxTicks == 4
\* Iterations explored of the while(1) diagnostic loop.
MaxErrorLines == 3
\* Samples the calibration is let to read; beyond it the sensor is not ready.
MaxBaselineSamples == 3

\* ------------------------------------------------- program constants
TRANSMISSION_INTERVAL == 50
\* CORRECTION_FACTOR = 0.968, in thousandths.
CORRECTION_FACTOR == 968
STABILIZATION_DELAY == 2000
BASELINE_WINDOW == 2000
BASELINE_SAMPLE_DELAY == 10
ERROR_DELAY == 5000

MillisModulus == 2 ^ WordBits

\* ------------------------------------------------------ input domains
\* Milliseconds that pass between two loop() invocations: inside the
\* interval, exactly the interval, and two long stalls that carry the
\* counter to its wrap and almost once around.
Advances == {10, TRANSMISSION_INTERVAL, MillisModulus - 4040, MillisModulus - 20}
\* Milliseconds one pass of the calibration loop takes (besides its delay).
CalibAdvances == {1000}
\* The same, for the study of setup() alone: passes within one millisecond,
\* short ones and long ones.
FineCalibAdvances == {0, 10, 400, 1000}
\* INA.getCurrent_mA(): signed, in mA.
RawCurrents == {-2, 1}
\* INA.getBusVoltage(): the bus voltage register is unsigned, in V.
Voltages == {5}
\* INA.setMaxCurrentShunt(...) status: 0x0000 is success.
ConfigResults == {0, 1}

VARIABLES
    pc,                \* "boot", "halt", "config", "calib", "loop"
    clock,             \* millis()
    serial,            \* the lines written to Serial, oldest first
    sessionStartTime, sampleCount, baselineCurrent, totalEnergy,
    lastTransmission,
    sum, samples, startTime,   \* locals of measureBaseline()
    calibReads,        \* history: the raw currents read by measureBaseline()
    sensor,            \* the sensor in the last loop() pass: its readiness
                       \* and the last values read from it
    ticks,             \* history: loop() invocations so far
    outcome,           \* history: "none", "limited", "notready", "emit"
    streak,            \* history: not-ready passes right before the last one
    streakBase,        \* history: records and lastTransmission before them
    sessionElapsed     \* history: true ms since sessionStartTime was taken

vars == <<pc, clock, serial, sessionStartTime, sampleCount, baselineCurrent,
          totalEnergy, lastTransmission, sum, samples, startTime, calibReads,
          sensor, ticks, outcome, streak, streakBase, sessionElapsed>>

\* ------------------------------------------------- unsigned arithmetic
Add32(a, b) == (a + b) % MillisModulus
Sub32(a, b) == (a - b) % MillisModulus

Abs(x) == IF x < 0 THEN -x ELSE x

\* ------------------------------------------------------- serial lines
Comment(text) ==
    [kind |-> "comment", text |-> text, timestamp |-> 0, voltage |-> 0,
     current |-> 0, netCurrent |-> [num |-> 0, den |-> 1], power |-> 0,
     energy |-> 0]

DataLine(timestamp, voltage, current, netCurrent, power, energy) ==
    [kind |-> "data", text |-> "", timestamp |-> timestamp,
     voltage |-> voltage, current |-> current, netCurrent |-> netCurrent,
     power |-> power, energy |-> energy]

IsData(line) == line.kind = "data"

\* The data records emitted so far, oldest first.
Records == SelectSeq(serial, IsData)

HasLine(text) == \E i \in 1..Len(serial) : serial[i].text = text

CountLines(text) == Cardinality({i \in 1..Len(serial) : serial[i].text = text})

\* ------------------------------------------------------- measurements
\* Variant: the absolute value is not taken.
CurrentSigned(raw) == raw * CORRECTION_FACTOR

\* abs(INA.getCurrent_mA()) * CORRECTION_FACTOR
Current(raw) == Abs(raw) * CORRECTION_FACTOR

\* voltage * current
Power(voltage, current) == voltage * current

\* Variant: the baseline is not subtracted.
NetCurrentUncompensated(current, baseline) == [num |-> current, den |-> 1]

\* current - baselineCurrent
NetCurrent(current, baseline) ==
    [num |-> current * baseline.den - baseline.num, den |-> baseline.den]

\* Variant: the counter itself is printed as the timestamp.
TimestampSinceBoot(now, start) == now

\* currentMillis - sessionStartTime
Timestamp(now, start) == Sub32(now, start)

\* Variant: the difference is taken in signed arithmetic.
IntervalElapsedSigned(now, last) == now - last >= TRANSMISSION_INTERVAL

\* Variant: the gate compares the counter itself with the interval.
IntervalElapsedSinceBoot(now, last) == now >= TRANSMISSION_INTERVAL

\* currentMillis - lastTransmission >= TRANSMISSION_INTERVAL
IntervalElapsed(now, last) == Sub32(now, last) >= TRANSMISSION_INTERVAL

\* Variant: the nominal period is taken as the time step.
EnergyIncrementNominal(power, now, last) == power * TRANSMISSION_INTERVAL

\* power * deltaTime, deltaTime being (currentMillis - lastTransmission) ms
EnergyIncrement(power, now, last) == power * Sub32(now, last)

\* Variant: the sum is not divided by the number of samples.
BaselineSum(total, n) == [num |-> total, den |-> 1]

\* sum / samples, or 0 without samples
Baseline(total, n) ==
    IF n > 0 THEN [num |-> total, den |-> n] ELSE [num |-> 0, den |-> 1]

\* ---------------------------------------------------------------- Init
Init ==
    /\ pc = "boot"
    /\ clock = 0
    /\ serial = <<>>
    /\ sessionStartTime = 0
    /\ sampleCount = 0
    /\ baselineCurrent = [num |-> 0, den |-> 1]
    /\ totalEnergy = 0
    /\ lastTransmission = 0
    /\ sum = 0
    /\ samples = 0
    /\ startTime = 0
    /\ calibReads = <<>>
    /\ sensor = [ready |-> FALSE, voltage |-> 0, raw |-> 0]
    /\ ticks = 0
    /\ outcome = "none"
    /\ streak = 0
    /\ streakBase = [records |-> 0, lastTransmission |-> 0]
    /\ sessionElapsed = 0

Session == <<sessionStartTime, sampleCount, baselineCurrent, totalEnergy,
             lastTransmission>>
CalibLocals == <<sum, samples, startTime, calibReads>>
TickHistory == <<sensor, ticks, outcome, streak, streakBase, sessionElapsed>>

\* --------------------------------------------------------------- setup
\* Variant: the while(1) is missing and setup() falls through.
AfterProbeFallThrough(detected) == "config"

\* setup(), lines 43-49: where setup() goes after INA.begin().
AfterProbe(detected) == IF detected THEN "config" ELSE "halt"

\* setup(), lines 29-49: header, delay, probe of the sensor.
SetupProbe ==
    /\ pc = "boot"
    /\ \E detected \in BOOLEAN :
        LET header == << Comment("# INA226 ESP32C6 Monitor - Continuous Mode"),
                         Comment("# Version: 1.0"),
                         Comment("# Shunt: 100mOhm (R100)"),
                         Comment("# Correction Factor: 0.968") >>
        IN /\ serial' = serial \o header
                        \o (IF detected THEN <<>>
                            ELSE << Comment("# ERROR: INA226 not detected!") >>)
           /\ pc' = AfterProbe(detected)
    /\ clock' = Add32(clock, STABILIZATION_DELAY)
    /\ UNCHANGED <<Session, CalibLocals, TickHistory>>

\* Variant: after the diagnostic and the delay the sensor is probed again.
SetupHaltReprobes ==
    /\ pc = "halt"
    /\ CountLines("# ERROR: Check connections SDA=GPIO21 SCL=GPIO22") < MaxErrorLines
    /\ serial' = Append(serial,
                    Comment("# ERROR: Check connections SDA=GPIO21 SCL=GPIO22"))
    /\ clock' = Add32(clock, ERROR_DELAY)
    /\ pc' = "boot"
    /\ UNCHANGED <<Session, CalibLocals, TickHistory>>

\* setup(), lines 45-48: one pass of while(1).
SetupHalt ==
    /\ pc = "halt"
    /\ CountLines("# ERROR: Check connections SDA=GPIO21 SCL=GPIO22") < MaxErrorLines
    /\ serial' = Append(serial,
                    Comment("# ERROR: Check connections SDA=GPIO21 SCL=GPIO22"))
    /\ clock' = Add32(clock, ERROR_DELAY)
    /\ UNCHANGED <<pc, Session, CalibLocals, TickHistory>>

\* Variant: a non-zero status stops setup() like a missing sensor.
AfterConfigureFatal(result) == IF result = 0 THEN "calib" ELSE "halt"

\* setup(), lines 52-55: where setup() goes after INA.setMaxCurrentShunt().
AfterConfigure(result) == "calib"

\* setup(), lines 51-67 and measureBaseline(), lines 87-89.
SetupConfigure ==
    /\ pc = "config"
    /\ \E result \in ConfigResults :
        /\ serial' = serial
            \o (IF result # 0 THEN << Comment("# Warning: Config result") >>
                ELSE <<>>)
            \o (IF AfterConfigure(result) = "calib"
                THEN << Comment("# Current LSB"), Comment("# Power LSB"),
                        Comment("# Measuring baseline...") >>
                ELSE <<>>)
        /\ pc' = AfterConfigure(result)
    /\ sum' = 0
    /\ samples' = 0
    /\ startTime' = clock
    /\ calibReads' = <<>>
    /\ UNCHANGED <<clock, Session, TickHistory>>

\* Variant: the loop also waits for a first sample.
WindowOpenUntilSample(now, start) ==
    Sub32(now, start) < BASELINE_WINDOW \/ samples = 0

\* measureBaseline(), line 92: the condition of the while loop.
WindowOpen(now, start) == Sub32(now, start) < BASELINE_WINDOW

\* measureBaseline(), lines 92-99: one pass of the while loop, taking one of
\* `advances` ms.
BaselinePollWith(advances) ==
    /\ pc = "calib"
    /\ WindowOpen(clock, startTime)
    /\ \E d \in advances, ready \in BOOLEAN, raw \in RawCurrents :
        IF ready /\ samples < MaxBaselineSamples
        THEN /\ sum' = sum + Current(raw)
             /\ samples' = samples + 1
             /\ calibReads' = Append(calibReads, raw)
             /\ clock' = Add32(clock, d + BASELINE_SAMPLE_DELAY)
        ELSE /\ clock' = Add32(clock, d)
             /\ UNCHANGED <<sum, samples, calibReads>>
    /\ UNCHANGED <<pc, serial, startTime, Session, TickHistory>>

BaselinePoll == BaselinePollWith(CalibAdvances)

\* Variant: the sentinel is printed before the CSV header lines.
SessionHeaderSentinelEarly ==
    << Comment("# Baseline current"), Comment("# Manufacturer ID"),
       Comment("# Die ID"), Comment("# Free RAM"),
       Comment("# DATA_START"),
       Comment("# Starting continuous monitoring..."),
       Comment("# Format: Timestamp(ms),Voltage(V),Current(mA),CurrentNet(mA),Power(mW),Energy(mWh)") >>

\* setup(), lines 69-83: the lines printed after the calibration.
SessionHeader ==
    << Comment("# Baseline current"), Comment("# Manufacturer ID"),
       Comment("# Die ID"), Comment("# Free RAM"),
       Comment("# Starting continuous monitoring..."),
       Comment("# Format: Timestamp(ms),Voltage(V),Current(mA),CurrentNet(mA),Power(mW),Energy(mWh)"),
       Comment("# DATA_START") >>

\* measureBaseline(), lines 101-105 and setup(), lines 69-83.
BaselineDone ==
    /\ pc = "calib"
    /\ ~WindowOpen(clock, startTime)
    /\ baselineCurrent' = Baseline(sum, samples)
    /\ sessionStartTime' = clock
    /\ sampleCount' = 0
    /\ serial' = serial \o SessionHeader
    /\ sessionElapsed' = 0
    /\ pc' = "loop"
    /\ UNCHANGED <<clock, totalEnergy, lastTransmission, CalibLocals,
                   sensor, ticks, outcome, streak, streakBase>>

\* ---------------------------------------------------------------- loop
\* Variant: the readiness of the sensor is not consulted.
EmitsWithoutReady(now, s) == IntervalElapsed(now, lastTransmission)

\* loop(), lines 112-113: the pass at `now` with the sensor answering s
\* reaches the body of the inner if.
Emits(now, s) == IntervalElapsed(now, lastTransmission) /\ s.ready

\* Variant: line 124 placed before the inner if instead of inside it.
NextSampleCountOuter(now, s) ==
    IF IntervalElapsed(now, lastTransmission) THEN sampleCount + 1
    ELSE sampleCount

\* loop(), line 124.
NextSampleCount(now, s) ==
    IF Emits(now, s) THEN sampleCount + 1 ELSE sampleCount

\* Variant: the increment is assigned instead of added.
NextTotalEnergyAssigned(now, s) ==
    IF Emits(now, s)
    THEN EnergyIncrement(Power(s.voltage, Current(s.raw)), now, lastTransmission)
    ELSE totalEnergy

\* loop(), lines 127-128.
NextTotalEnergy(now, s) ==
    IF Emits(now, s)
    THEN totalEnergy + EnergyIncrement(Power(s.voltage, Current(s.raw)), now,
                                       lastTransmission)
    ELSE totalEnergy

\* Variant: line 139 is missing.
NextLastTransmissionStale(now, s) == lastTransmission

\* Variant: line 139 placed after the inner if instead of inside it.
NextLastTransmissionOuter(now, s) ==
    IF IntervalElapsed(now, lastTransmission) THEN now ELSE lastTransmission

\* loop(), line 139.
NextLastTransmission(now, s) ==
    IF Emits(now, s) THEN now ELSE lastTransmission

\* loop(), lines 115-121 and 131-137: the line printed by an emitting pass.
Record(now, s) ==
    DataLine(Timestamp(now, sessionStartTime), s.voltage, Current(s.raw),
             NetCurrent(Current(s.raw), baselineCurrent),
             Power(s.voltage, Current(s.raw)), NextTotalEnergy(now, s))

\* Variant: every pass makes the last current read the baseline.
TickKeepsRebaselined ==
    /\ baselineCurrent' = [num |-> Current(sensor'.raw), den |-> 1]
    /\ UNCHANGED <<pc, sessionStartTime, CalibLocals>>

\* loop(), lines 108-142: what no pass of loop() assigns.
TickKeeps == UNCHANGED <<pc, sessionStartTime, baselineCurrent, CalibLocals>>

\* loop(), lines 108-142, entered d ms after the previous pass with the
\* sensor answering s.
Tick(d, s) ==
    LET now == Add32(clock, d) IN
    /\ clock' = now
    /\ sampleCount' = NextSampleCount(now, s)
    /\ totalEnergy' = NextTotalEnergy(now, s)
    /\ lastTransmission' = NextLastTransmission(now, s)
    /\ serial' = IF Emits(now, s) THEN Append(serial, Record(now, s))
                 ELSE serial
    /\ sensor' = IF Emits(now, s) THEN s
                 ELSE [sensor EXCEPT !.ready = s.ready]
    /\ ticks' = ticks + 1
    /\ sessionElapsed' = sessionElapsed + d
    /\ outcome' = IF ~IntervalElapsed(now, lastTransmission) THEN "limited"
                  ELSE IF s.ready THEN "emit" ELSE "notready"
    /\ streak' = IF outcome = "notready" THEN streak + 1 ELSE 0
    /\ streakBase' = IF outcome = "notready" THEN streakBase
                     ELSE [records |-> Len(Records),
                           lastTransmission |-> lastTransmission]
    /\ TickKeeps

LoopTick ==
    /\ pc = "loop"
    /\ ticks < MaxTicks
    /\ \E d \in Advances, ready \in BOOLEAN, v \in Voltages, raw \in RawCurrents :
        Tick(d, [ready |-> ready, voltage |-> v, raw |-> raw])

Next ==
    \/ SetupProbe
    \/ SetupHalt
    \/ SetupConfigure
    \/ BaselinePoll
    \/ BaselineDone
    \/ LoopTick

Spec == Init /\ [][Next]_vars

\* setup() alone, with calibration passes of every length.  Each step of
\* setup() is taken when it can be: the processor runs, and a pass of the
\* calibration loop that changes nothing (sensor not ready within the same
\* millisecond) is followed by passes in which millis() has advanced.
SetupNext ==
    \/ SetupProbe
    \/ SetupHalt
    \/ SetupConfigure
    \/ BaselinePollWith(FineCalibAdvances)
    \/ BaselineDone

SetupSpec ==
    /\ Init
    /\ [][SetupNext]_vars
    /\ WF_vars(SetupProbe)
    /\ WF_vars(SetupHalt)
    /\ WF_vars(SetupConfigure)
    /\ WF_vars(BaselinePollWith(FineCalibAdvances))
    /\ WF_vars(BaselineDone)

\* ==================================================================
\* Properties
\* ==================================================================
LastRecord == Records[Len(Records)]
PrevRecord == Records[Len(Records) - 1]

\* A step that is one pass of loop().
IsTick == pc = "loop" /\ ticks' = ticks + 1

\* C1 as stated: any two consecutive data records have timestamps that
\* differ, as plain numbers, by at least TRANSMISSION_INTERVAL.
C1_TimestampsDifferByInterval ==
    \A i \in 1..(Len(Records) - 1) :
        Abs(Records[i + 1].timestamp - Records[i].timestamp)
            >= TRANSMISSION_INTERVAL

\* C1 (amended): the unsigned difference, later timestamp minus earlier one
\* modulo the counter's range, of any two consecutive data records is at
\* least TRANSMISSION_INTERVAL; and the plain difference is at least
\* TRANSMISSION_INTERVAL when the later record is emitted before the session
\* has lasted one full range of the counter.
C1_UnsignedSpacing ==
    /\ \A i \in 1..(Len(Records) - 1) :
          Sub32(Records[i + 1].timestamp, Records[i].timestamp)
              >= TRANSMISSION_INTERVAL
    /\ (outcome = "emit" /\ Len(Records) >= 2 /\ sessionElapsed < MillisModulus)
          => LastRecord.timestamp - PrevRecord.timestamp >= TRANSMISSION_INTERVAL

\* Two consecutive records exactly one interval apart, the later one after
\* the timestamp has wrapped.
C1_Witness ==
    /\ Len(Records) >= 2
    /\ LastRecord.timestamp < PrevRecord.timestamp
    /\ Sub32(LastRecord.timestamp, PrevRecord.timestamp) = TRANSMISSION_INTERVAL

\* C2: a pass of loop() entered less than TRANSMISSION_INTERVAL after
\* lastTransmission prints nothing and leaves sampleCount, totalEnergy,
\* lastTransmission, sessionStartTime and baselineCurrent as they were,
\* whether or not the sensor is ready.
C2_RateLimitedTickIsNoOp ==
    [][(IsTick /\ (clock' - lastTransmission) % MillisModulus < TRANSMISSION_INTERVAL)
          => UNCHANGED <<serial, sampleCount, totalEnergy, lastTransmission,
                         sessionStartTime, baselineCurrent>>]_vars

\* A rate-limited pass has happened while the sensor was ready, after a
\* record had been emitted.
C2_Witness ==
    /\ outcome = "limited"
    /\ sensor.ready
    /\ Len(Records) >= 1
    /\ (clock - lastTransmission) % MillisModulus < TRANSMISSION_INTERVAL

\* C3: a pass of loop() entered with the interval elapsed and the sensor not
\* ready prints nothing and leaves lastTransmission, sampleCount and
\* totalEnergy as they were; and every step that changes lastTransmission
\* appends exactly one data record.
C3_NotReadyTickKeepsLastTransmission ==
    [][/\ (/\ IsTick
           /\ (clock' - lastTransmission) % MillisModulus >= TRANSMISSION_INTERVAL
           /\ ~sensor'.ready)
          => UNCHANGED <<serial, lastTransmission, sampleCount, totalEnergy>>
       /\ (lastTransmission' # lastTransmission)
          => /\ Len(serial') = Len(serial) + 1
             /\ serial'[Len(serial')].kind = "data"
             /\ SubSeq(serial', 1, Len(serial)) = serial]_vars

\* A not-ready pass has happened with the interval elapsed, after a record
\* had been emitted.
C3_Witness ==
    /\ outcome = "notready"
    /\ Len(Records) >= 1
    /\ (clock - lastTransmission) % MillisModulus >= TRANSMISSION_INTERVAL

\* C4: when loop() finds the interval elapsed and the sensor not ready on k
\* consecutive passes (k >= 0) and then finds it elapsed and the sensor ready,
\* those k + 1 passes emit exactly one record, on the last of them, whose
\* timestamp is that pass's time minus sessionStartTime, and lastTransmission
\* is that pass's time; during the k passes no record is emitted and
\* lastTransmission keeps the value it had before them.
C4_RetryUntilReady ==
    /\ outcome = "emit"
          => /\ Len(Records) = streakBase.records + 1
             /\ LastRecord.timestamp = (clock - sessionStartTime) % MillisModulus
             /\ lastTransmission = clock
             /\ serial[Len(serial)] = LastRecord
    /\ outcome = "notready"
          => /\ Len(Records) = streakBase.records
             /\ lastTransmission = streakBase.lastTransmission

\* Three not-ready passes, then a record on the fourth.
C4_Witness ==
    /\ outcome = "emit"
    /\ streak = 3
    /\ Len(Records) = streakBase.records + 1

\* C5: with every power value non-negative, the energy column of the data
\* records is non-decreasing; and no step lowers totalEnergy.
C5_EnergyNonDecreasing ==
    /\ []((\A i \in 1..Len(Records) : Records[i].power >= 0)
            => /\ \A i \in 1..(Len(Records) - 1) :
                      Records[i].energy <= Records[i + 1].energy
               /\ Len(Records) >= 1 => LastRecord.energy = totalEnergy)
    /\ [][totalEnergy' >= totalEnergy]_vars

\* Two records, the later with strictly more energy.
C5_Witness ==
    /\ Len(Records) >= 2
    /\ PrevRecord.power >= 0
    /\ LastRecord.power > 0
    /\ PrevRecord.energy < LastRecord.energy

\* C6 as stated: the timestamps of the data records are strictly increasing.
C6_TimestampsStrictlyIncreasing ==
    \A i \in 1..(Len(Records) - 1) :
        Records[i].timestamp < Records[i + 1].timestamp

\* C6 (amended): every record's timestamp is the time since sessionStartTime
\* was taken modulo the counter's range; consecutive timestamps are never
\* equal; and each record emitted before the session has lasted one full
\* range of the counter has a timestamp greater than its predecessor's.
C6_IncreasingUntilWrap ==
    /\ \A i \in 1..(Len(Records) - 1) :
          Records[i].timestamp # Records[i + 1].timestamp
    /\ outcome = "emit" => LastRecord.timestamp = sessionElapsed % MillisModulus
    /\ (outcome = "emit" /\ Len(Records) >= 2 /\ sessionElapsed < MillisModulus)
          => PrevRecord.timestamp < LastRecord.timestamp

\* A record emitted after millis() has wrapped but before the session has
\* lasted a full range.
C6_Witness ==
    /\ outcome = "emit"
    /\ Len(Records) >= 2
    /\ clock < sessionStartTime
    /\ sessionElapsed < MillisModulus
    /\ PrevRecord.timestamp < LastRecord.timestamp

\* C7: every data record has power = voltage * current and
\* netCurrent = current - baselineCurrent, baselineCurrent being what the
\* calibration computed; the record just emitted has the voltage read and
\* current = abs(raw current read) * CORRECTION_FACTOR.
C7_RecordArithmetic ==
    /\ \A i \in 1..Len(Records) :
          LET r == Records[i] IN
          /\ r.power = r.voltage * r.current
          /\ r.netCurrent.den > 0
          /\ r.netCurrent.num * baselineCurrent.den
                = (r.current * baselineCurrent.den - baselineCurrent.num)
                    * r.netCurrent.den
    /\ pc = "loop"
          => /\ baselineCurrent.den > 0
             /\ baselineCurrent.num * (IF samples > 0 THEN samples ELSE 1)
                    = sum * baselineCurrent.den
    /\ outcome = "emit"
          => /\ LastRecord.voltage = sensor.voltage
             /\ LastRecord.current = Abs(sensor.raw) * CORRECTION_FACTOR

\* A record built from a negative raw current, with a baseline averaged
\* over two samples.
C7_Witness ==
    /\ outcome = "emit"
    /\ sensor.raw < 0
    /\ samples = 2
    /\ baselineCurrent.num > 0
    /\ LastRecord.netCurrent.num # LastRecord.current * LastRecord.netCurrent.den

RECURSIVE SumCorrected(_)
\* The sum of abs(raw) * CORRECTION_FACTOR over the readings.
SumCorrected(reads) ==
    IF reads = <<>> THEN 0
    ELSE Abs(Head(reads)) * CORRECTION_FACTOR + SumCorrected(Tail(reads))

\* C8: once setup() has reached the data phase, baselineCurrent is 0 if the
\* calibration read no sample, and then no error line was printed and
\* # DATA_START was; otherwise baselineCurrent is the sum of
\* abs(raw) * CORRECTION_FACTOR over the samples read divided by their number.
C8_BaselineValue ==
    pc = "loop"
        => /\ baselineCurrent.den > 0
           /\ IF Len(calibReads) = 0
              THEN /\ baselineCurrent.num = 0
                   /\ ~HasLine("# ERROR: INA226 not detected!")
                   /\ ~HasLine("# ERROR: Check connections SDA=GPIO21 SCL=GPIO22")
                   /\ HasLine("# DATA_START")
              ELSE baselineCurrent.num * Len(calibReads)
                      = SumCorrected(calibReads) * baselineCurrent.den

\* The calibration found the sensor never ready, and the session went on to
\* emit a record.
C8_Witness ==
    /\ pc = "loop"
    /\ calibReads = <<>>
    /\ samples = 0
    /\ baselineCurrent.num = 0
    /\ Len(Records) >= 1

\* C9: once the not-detected error line has been printed, setup() is in its
\* while(1); # DATA_START is never printed, no data record is emitted and
\* the calibration is never run.
C9_NotDetectedNeverReachesData ==
    HasLine("# ERROR: INA226 not detected!")
        => /\ pc = "halt"
           /\ ~HasLine("# DATA_START")
           /\ Records = <<>>
           /\ ~HasLine("# Measuring baseline...")
           /\ calibReads = <<>>
           /\ ticks = 0

\* The diagnostic loop has run twice.
C9_Witness ==
    /\ pc = "halt"
    /\ HasLine("# ERROR: INA226 not detected!")
    /\ CountLines("# ERROR: Check connections SDA=GPIO21 SCL=GPIO22") >= 2

\* C10 as stated: the first data record's energy is its power times the
\* time since sessionStartTime, which is the record's timestamp.
C10_FirstEnergyFromSessionStart ==
    Len(Records) >= 1
        => Records[1].energy = Records[1].power * Records[1].timestamp

\* The value of millis() in the pass that printed record r.
EmitClock(r) == (r.timestamp + sessionStartTime) % MillisModulus

\* C11: every data record after the first adds to the energy exactly its
\* power times the unsigned time from the pass that printed the previous
\* record to its own pass, whatever passes were skipped in between; an
\* emitting pass adds exactly that to totalEnergy, and the interval it
\* integrates over starts where the previous one ended.
C11_EnergyStepIsActualElapsed ==
    /\ \A i \in 1..(Len(Records) - 1) :
          Records[i + 1].energy - Records[i].energy
              = Records[i + 1].power
                  * ((EmitClock(Records[i + 1]) - EmitClock(Records[i]))
                        % MillisModulus)
    /\ (outcome = "emit" /\ Len(Records) >= 2)
          => /\ totalEnergy = LastRecord.energy
             /\ EmitClock(LastRecord) = clock
             /\ lastTransmission = clock

\* A record printed after two not-ready passes, more than one nominal
\* period after its predecessor.
C11_Witness ==
    /\ outcome = "emit"
    /\ Len(Records) >= 2
    /\ streak >= 2
    /\ LastRecord.power > 0
    /\ (LastRecord.timestamp - PrevRecord.timestamp) % MillisModulus
          > TRANSMISSION_INTERVAL
    /\ LastRecord.energy - PrevRecord.energy
          # LastRecord.power * TRANSMISSION_INTERVAL

\* C12: a pass of loop() either prints nothing and leaves the session
\* variables as they were, or appends exactly one data record, adds one to
\* sampleCount, makes totalEnergy the energy printed and lastTransmission
\* the time of the pass; so in the data phase sampleCount is the number of
\* data records printed, and no step lowers it.
C12_TickAllOrNothing ==
    /\ [][IsTick
            => \/ UNCHANGED <<serial, sampleCount, totalEnergy,
                              lastTransmission, sessionStartTime,
                              baselineCurrent>>
               \/ /\ Len(serial') = Len(serial) + 1
                  /\ SubSeq(serial', 1, Len(serial)) = serial
                  /\ serial'[Len(serial')].kind = "data"
                  /\ sampleCount' = sampleCount + 1
                  /\ totalEnergy' = serial'[Len(serial')].energy
                  /\ lastTransmission' = clock'
                  /\ UNCHANGED <<sessionStartTime, baselineCurrent>>]_vars
    /\ [][sampleCount' >= sampleCount]_vars
    /\ [](pc = "loop" => sampleCount = Len(Records))

\* Three records printed in four passes.
C12_Witness ==
    /\ ticks = 4
    /\ sampleCount = 3
    /\ Len(Records) = 3
    /\ outcome = "emit"

C14_BaselineWrittenOnce ==
    /\ [][(baselineCurrent' # baselineCurrent
             \/ sessionStartTime' # sessionStartTime)
            => (pc = "calib" /\ pc' = "loop")]_vars
    /\ [][IsTick => UNCHANGED <<baselineCurrent, sessionStartTime>>]_vars
    /\ [][pc = "loop" => pc' = "loop"]_vars
    /\ [](\A i \in 1..Len(Records) :
            Records[i].netCurrent.num * baselineCurrent.den
                = (Records[i].current * baselineCurrent.den
                     - baselineCurrent.num) * Records[i].netCurrent.den)

\* Two records with different currents, both compensated with a non-zero
\* baseline.
C14_Witness ==
    /\ Len(Records) >= 2
    /\ baselineCurrent.num > 0
    /\ LastRecord.current # PrevRecord.current
    /\ LastRecord.netCurrent.den = baselineCurrent.den
    /\ LastRecord.current * baselineCurrent.den - LastRecord.netCurrent.num
          = PrevRecord.current * baselineCurrent.den - PrevRecord.netCurrent.num

\* Where a line with this text stands in the serial stream.
LineIndex(text) == CHOOSE i \in 1..Len(serial) : serial[i].text = text

\* C15: before the data phase neither # DATA_START nor a data record has
\* been printed; in the data phase # DATA_START has been printed exactly
\* once, after the calibration's start and result lines, with
\* sessionStartTime taken; every line before it is a comment and every line
\* after it is a data record.
C15_DataStartSeparatesPhases ==
    /\ pc # "loop" => (~HasLine("# DATA_START") /\ Records = <<>>)
    /\ pc = "loop"
          => /\ CountLines("# DATA_START") = 1
             /\ CountLines("# Measuring baseline...") = 1
             /\ CountLines("# Baseline current") = 1
             /\ LineIndex("# Measuring baseline...") < LineIndex("# Baseline current")
             /\ LineIndex("# Baseline current") < LineIndex("# DATA_START")
             /\ \A i \in 1..Len(serial) :
                   IF i <= LineIndex("# DATA_START")
                   THEN serial[i].kind = "comment"
                   ELSE serial[i].kind = "data"
             /\ sessionStartTime = (clock - sessionElapsed) % MillisModulus
             /\ ~WindowOpen(sessionStartTime, startTime)

\* Two data records follow the sentinel.
C15_Witness ==
    /\ pc = "loop"
    /\ CountLines("# DATA_START") = 1
    /\ Len(Records) >= 2
    /\ Len(serial) = LineIndex("# DATA_START") + Len(Records)

IsNotWarning(line) == line.text # "# Warning: Config result"

\* The texts of the comment lines setup() prints when the sensor is detected
\* and configured with status 0.
SuccessPreamble ==
    << "# INA226 ESP32C6 Monitor - Continuous Mode", "# Version: 1.0",
       "# Shunt: 100mOhm (R100)", "# Correction Factor: 0.968",
       "# Current LSB", "# Power LSB", "# Measuring baseline...",
       "# Baseline current", "# Manufacturer ID", "# Die ID", "# Free RAM",
       "# Starting continuous monitoring...",
       "# Format: Timestamp(ms),Voltage(V),Current(mA),CurrentNet(mA),Power(mW),Energy(mWh)",
       "# DATA_START" >>

\* C16: once the configuration warning has been printed (once), setup() is
\* not stopped: it is in the calibration or in the data phase and no error
\* line is printed; it goes on to the data phase with # DATA_START printed;
\* and there the preamble, the warning line left out, is the one of the
\* success path.
C16_ConfigWarningNonFatal ==
    /\ [](HasLine("# Warning: Config result")
            => /\ pc \in {"calib", "loop"}
               /\ CountLines("# Warning: Config result") = 1
               /\ ~HasLine("# ERROR: INA226 not detected!")
               /\ ~HasLine("# ERROR: Check connections SDA=GPIO21 SCL=GPIO22"))
    /\ [](pc = "loop"
            => LET shown == SelectSeq(serial, IsNotWarning)
               IN /\ Len(shown) >= Len(SuccessPreamble)
                  /\ \A i \in 1..Len(SuccessPreamble) :
                        shown[i].text = SuccessPreamble[i])
    /\ HasLine("# Warning: Config result")
          ~> (pc = "loop" /\ HasLine("# DATA_START"))

\* The data phase has been reached after a configuration warning.
C16_Witness ==
    /\ HasLine("# Warning: Config result")
    /\ pc = "loop"
    /\ HasLine("# DATA_START")
    /\ samples > 0

\* C17: in the not-detected state every step stays in that state, prints
\* exactly one diagnostic line and lets ERROR_DELAY ms pass, changing nothing
\* else; and the diagnostic lines keep coming: from the not-detected state
\* the MaxErrorLines-th diagnostic line is reached.
C17_NotDetectedLoopsForever ==
    /\ [][pc = "halt"
            => /\ pc' = "halt"
               /\ serial' = Append(serial,
                     Comment("# ERROR: Check connections SDA=GPIO21 SCL=GPIO22"))
               /\ clock' = (clock + ERROR_DELAY) % MillisModulus
               /\ UNCHANGED <<sessionStartTime, sampleCount, baselineCurrent,
                              totalEnergy, lastTransmission>>]_vars
    /\ (pc = "halt")
          ~> (/\ pc = "halt"
              /\ CountLines("# ERROR: Check connections SDA=GPIO21 SCL=GPIO22")
                    = MaxErrorLines)

\* The diagnostic line has been printed MaxErrorLines times.
C17_Witness ==
    /\ pc = "halt"
    /\ CountLines("# ERROR: Check connections SDA=GPIO21 SCL=GPIO22")
          = MaxErrorLines
    /\ CountLines("# ERROR: INA226 not detected!") = 1

\* C18: every data record has a non-negative current and a non-negative
\* power, whatever the sign of the raw current read; every emitting pass
\* adds a non-negative amount to totalEnergy, and no step lowers it.
C18_PowerNonNegative ==
    /\ [](\A i \in 1..Len(Records) :
            Records[i].current >= 0 /\ Records[i].power >= 0)
    /\ [](totalEnergy >= 0)
    /\ [][(IsTick /\ Len(serial') > Len(serial))
            => /\ serial'[Len(serial')].power >= 0
               /\ totalEnergy' - totalEnergy
                     = serial'[Len(serial')].power
                         * ((clock' - lastTransmission) % MillisModulus)
               /\ totalEnergy' >= totalEnergy]_vars
    /\ [][totalEnergy' >= totalEnergy]_vars

\* A record built from a negative raw current has raised the energy.
C18_Witness ==
    /\ outcome = "emit"
    /\ sensor.raw < 0
    /\ Len(Records) >= 2
    /\ LastRecord.power > 0
    /\ LastRecord.energy > PrevRecord.energy
    /\ totalEnergy = LastRecord.energy

\* C19: in a pass of loop() in which millis() has wrapped since
\* lastTransmission (its value is below lastTransmission), the elapsed time
\* is millis() + 2^width - lastTransmission; the pass prints nothing and
\* changes nothing if that is below TRANSMISSION_INTERVAL or the sensor is
\* not ready, and otherwise prints one record, adds power times that elapsed
\* time to totalEnergy and makes lastTransmission the time of the pass.
C19_GateAcrossWrap ==
    [][(IsTick /\ clock' < lastTransmission)
         => LET elapsed == clock' + MillisModulus - lastTransmission IN
            IF elapsed >= TRANSMISSION_INTERVAL /\ sensor'.ready
            THEN /\ Len(serial') = Len(serial) + 1
                 /\ serial'[Len(serial')].kind = "data"
                 /\ totalEnergy' - totalEnergy
                       = serial'[Len(serial')].power * elapsed
                 /\ serial'[Len(serial')].energy = totalEnergy'
                 /\ lastTransmission' = clock'
            ELSE UNCHANGED <<serial, sampleCount, totalEnergy,
                             lastTransmission>>]_vars

\* A record printed just after the wrap, its predecessor just before it.
C19_Witness ==
    /\ outcome = "emit"
    /\ Len(Records) >= 2
    /\ EmitClock(PrevRecord) >= MillisModulus - TRANSMISSION_INTERVAL
    /\ clock < TRANSMISSION_INTERVAL
    /\ LastRecord.power > 0
    /\ LastRecord.energy - PrevRecord.energy
          = LastRecord.power * (clock + MillisModulus - EmitClock(PrevRecord))

====
